---- MODULE Spec2Model ----
(***************************************************************************)
(* Model of the GitLab vulnerability report generator (src/2.py).          *)
(*                                                                         *)
(* The program is sequential.  It is modelled as five state machines over  *)
(* one set of variables, one per layer of the program:                     *)
(*   SpecPct     _compute_pct_change_against_current                       *)
(*   SpecPage    _get_json and the two paging loops                        *)
(*   SpecOpen    get_open_counts over one project                          *)
(*   SpecWindow  the three get_window_counts passes over one project       *)
(*   Spec        main: groups, projects, sheets, summary, percent table    *)
(* Time is counted in hours.  A float is modelled as the rational          *)
(* <<numerator, denominator>> it is the rounding of.                       *)
(***************************************************************************)
EXTENDS Integers, Sequences, FiniteSets, TLC

VARIABLES
    \* _compute_pct_change_against_current
    window_count, current_count, pct_result,
    \* the paging loops (get_projects_in_group, iter_project_vulnerabilities)
    accessor,    \* which of the two accessors is running
    srvPages,    \* the server's pages of the listing being read
    page,        \* local variable page
    out,         \* projects (list) / records yielded so far (generator)
    data,        \* result of the last _get_json call
    requested,   \* the page numbers sent so far, in order
    pc,          \* "loop", "done" (returned) or "raised" (exception propagates)
    \* one project: get_open_counts and get_window_counts
    clock,       \* datetime.now(timezone.utc), in hours
    ppc,         \* which pass comes next
    produced,    \* the records the last pass drew from the generator
    items,       \* the records the last window pass retained
    cutoff,      \* cutoff of the last window pass
    now_read,    \* the clock readings of the 30/60/90 passes
    counts,      \* the counts returned by the passes
    failed,      \* some page request of this project failed
    \* main
    mpc, gi, projects, pidx, data_rows, summary_rows, sheets, pct_rows, cells

pctVars  == <<window_count, current_count, pct_result>>
pageVars == <<accessor, srvPages, page, out, data, requested, pc>>
projVars == <<clock, ppc, produced, items, cutoff, now_read, counts, failed>>
mainVars == <<mpc, gi, projects, pidx, data_rows, summary_rows, sheets, pct_rows, cells>>
vars     == <<pctVars, pageVars, projVars, mainVars>>

\* Python's None
None == "None"

(***************************************************************************)
(* Bounds of the model                                                     *)
(***************************************************************************)
MaxCount == 9       \* counts handed to the percent-change function
MaxPages == 2       \* pages a listing has on the server
MaxPageLen == 2     \* records on one page

\* all sequences over S of length at most n
RECURSIVE SeqsUpTo(_, _)
SeqsUpTo(S, n) ==
    IF n = 0 THEN {<<>>}
    ELSE LET shorter == SeqsUpTo(S, n - 1)
         IN  shorter \cup {Append(s, x) : s \in {t \in shorter : Len(t) = n - 1}, x \in S}

(***************************************************************************)
(* Percent change                                                          *)
(***************************************************************************)
Float(n, d) == [kind |-> "float", num |-> n, den |-> d]
Undefined == [kind |-> None, num |-> 0, den |-> 1]
Unset == [kind |-> "unset", num |-> 0, den |-> 1]

\* mutant: the difference taken the other way round
_compute_pct_change_swapped(wc, cc) ==
    IF cc = 0
    THEN IF wc = 0 THEN Float(0, 1) ELSE Undefined
    ELSE Float(cc - wc, cc)

_compute_pct_change_against_current(wc, cc) ==
    IF cc = 0
    THEN IF wc = 0 THEN Float(0, 1) ELSE Undefined
    ELSE Float(wc - cc, cc)

IdlePct == window_count = 0 /\ current_count = 0 /\ pct_result = Unset

ComputePct ==
    /\ pct_result = Unset
    /\ pct_result' = _compute_pct_change_against_current(window_count, current_count)
    /\ UNCHANGED <<window_count, current_count, pageVars, projVars, mainVars>>

(***************************************************************************)
(* _get_json                                                               *)
(***************************************************************************)
\* what one SESSION.get can do: raise, or return a response
Exc(e) == [exc |-> e, status_code |-> 0, json_ok |-> FALSE, retry_after |-> "absent"]
Resp(s, j, ra) == [exc |-> "none", status_code |-> s, json_ok |-> j, retry_after |-> ra]
RetryAfterHeaders == {"absent", "7", "soon"}
GetOutcomes ==
    {Exc("ChunkedEncodingError"), Exc("ConnectionError")}
    \cup {Resp(200, TRUE, "absent"), Resp(200, FALSE, "absent"),
          Resp(500, FALSE, "absent"), Resp(404, FALSE, "absent")}
    \cup {Resp(429, FALSE, ra) : ra \in RetryAfterHeaders}
\* the behaviour of the network during one _get_json call: the first GET, the
\* GET after a ChunkedEncodingError, and the GET after a 429
\* (a GET that is never sent is left at its first outcome)
Unsent == Exc("ConnectionError")
NetBehaviours ==
    {n \in [g1 : GetOutcomes, g2 : GetOutcomes, g3 : GetOutcomes] :
        /\ n.g1.exc # "ChunkedEncodingError" => n.g2 = Unsent
        /\ (n.g1.status_code # 429 /\ n.g2.status_code # 429) => n.g3 = Unsent}

FallbackSleep == 2
\* seconds slept
_sleep_if_rate_limited(resp) ==
    IF resp.status_code = 429
    THEN CASE resp.retry_after = "absent" -> 0
           [] resp.retry_after = "7" -> 7
           [] OTHER -> FallbackSleep
    ELSE 0

Returned(k, recs, gets, d) == [kind |-> k, recs |-> recs, gets |-> gets, delay |-> d]

\* lines 116-124
ParseResponse(resp, body, gets, d) ==
    IF resp.status_code # 200 THEN Returned(None, <<>>, gets, d)
    ELSE IF resp.json_ok THEN Returned("list", body, gets, d)
    ELSE Returned(None, <<>>, gets, d)

\* lines 112-124: the GET after a 429 is outside every try block
AfterFirstResponse(resp, net, body, gets) ==
    IF resp.status_code = 429
    THEN IF net.g3.exc # "none"
         THEN Returned("raise", <<>>, Append(gets, net.g3), _sleep_if_rate_limited(resp))
         ELSE ParseResponse(net.g3, body, Append(gets, net.g3), _sleep_if_rate_limited(resp))
    ELSE ParseResponse(resp, body, gets, 0)

_get_json(net, body) ==
    IF net.g1.exc = "ChunkedEncodingError"
    THEN IF net.g2.exc # "none"
         THEN Returned(None, <<>>, <<net.g1, net.g2>>, 0)
         ELSE AfterFirstResponse(net.g2, net, body, <<net.g1, net.g2>>)
    ELSE IF net.g1.exc # "none"
    THEN Returned(None, <<>>, <<net.g1>>, 0)
    ELSE AfterFirstResponse(net.g1, net, body, <<net.g1>>)

(***************************************************************************)
(* The paging loops                                                        *)
(***************************************************************************)
\* what the server sends for page p of a listing
ServerPage(srv, p) == IF p <= Len(srv) THEN srv[p] ELSE <<>>

Loop(p, o, k) == [page |-> p, out |-> o, pc |-> k]

\* mutant: a failed request is retried instead of ending the loop
LoopBodyRetryOnFailure(st, res) ==
    IF res.kind = "raise" THEN Loop(st.page, st.out, "raised")
    ELSE IF res.kind = None THEN Loop(st.page, st.out, "loop")
    ELSE IF res.recs = <<>> THEN Loop(st.page, st.out, "done")
    ELSE Loop(st.page + 1, st.out \o res.recs, "loop")

\* one iteration of `while True` (lines 144-153, 160-172), given what
\* _get_json returned
LoopBody(st, res) ==
    IF res.kind = "raise" THEN Loop(st.page, st.out, "raised")
    ELSE IF res.kind = None THEN Loop(st.page, st.out, "done")
    ELSE IF res.recs = <<>> THEN Loop(st.page, st.out, "done")
    ELSE Loop(st.page + 1, st.out \o res.recs, "loop")

MaxRequests == MaxPages + 3

PagingStep(which) ==
    /\ accessor = which
    /\ pc = "loop"
    /\ Len(requested) < MaxRequests
    /\ \E net \in NetBehaviours :
         LET res == _get_json(net, ServerPage(srvPages, page))
             st  == LoopBody(Loop(page, out, pc), res)
         IN  /\ data' = res
             /\ page' = st.page
             /\ out' = st.out
             /\ pc' = st.pc
    /\ requested' = Append(requested, page)
    /\ UNCHANGED <<accessor, srvPages, pctVars, projVars, mainVars>>

get_projects_in_group == PagingStep("get_projects_in_group")
iter_project_vulnerabilities == PagingStep("iter_project_vulnerabilities")

NoData == Returned("unset", <<>>, <<>>, 0)
IdlePage ==
    /\ accessor = "none" /\ srvPages = <<>> /\ page = 1 /\ out = <<>>
    /\ data = NoData /\ requested = <<>> /\ pc = "idle"

IdleProj ==
    /\ clock = 0 /\ ppc = "idle" /\ produced = <<>> /\ items = <<>> /\ cutoff = 0
    /\ now_read = <<>> /\ counts = <<>> /\ failed = FALSE

IdleMain ==
    /\ mpc = "idle" /\ gi = 0 /\ projects = <<>> /\ pidx = 0 /\ data_rows = <<>>
    /\ summary_rows = <<>> /\ sheets = <<>> /\ pct_rows = <<>> /\ cells = <<>>

(***************************************************************************)
(* One project: open counts and window counts                              *)
(***************************************************************************)
\* a key the JSON object does not have
Absent == "<absent>"
\* dict.get(key, default)
dict_get(d, key, default) == IF d[key] = Absent THEN default ELSE d[key]
\* x or "" for a string, None or an absent key
or_empty(x) == IF x \in {None, Absent, ""} THEN "" ELSE x

\* str.lower on the strings of the model
lower(s) ==
    CASE s \in {"critical", "Critical", "CRITICAL"} -> "critical"
      [] s \in {"high", "High", "HIGH"} -> "high"
      [] s \in {"detected", "Detected", "DETECTED"} -> "detected"
      [] OTHER -> s

\* created_at values: the key absent, null, "", text that is no timestamp, an
\* ISO-8601 time without offset, or one with a UTC offset (hours)
Stamp(f, l, o) == [form |-> f, local |-> l, offset |-> o]
NoStamp(f) == Stamp(f, 0, 0)
Vuln(sev, sta, created) == [severity |-> sev, state |-> sta, created_at |-> created]
\* v.get("created_at", "")
get_created_at(v) == IF v.created_at.form = "absent" THEN NoStamp("empty") ELSE v.created_at

HoursPerDay == 24
NotParsed == [ok |-> FALSE, t |-> 0]

\* the UTC instant of a created_at value, in hours
_parse_utc(dt_str) ==
    IF dt_str.form \in {"absent", "null", "empty"} THEN NotParsed
    ELSE IF dt_str.form = "garbage" THEN NotParsed
    ELSE IF dt_str.form = "naive" THEN [ok |-> TRUE, t |-> dt_str.local]
    ELSE [ok |-> TRUE, t |-> dt_str.local - dt_str.offset]

\* the network during one run of a paging loop: request `at` behaves as
\* `net`, every other request is answered 200 with a well-formed body
PlainOk == [g1 |-> Resp(200, TRUE, "absent"), g2 |-> Unsent, g3 |-> Unsent]
ScriptNets ==
    {PlainOk,
     [g1 |-> Resp(500, FALSE, "absent"), g2 |-> Unsent, g3 |-> Unsent],
     [g1 |-> Resp(429, FALSE, "7"), g2 |-> Unsent, g3 |-> Exc("ConnectionError")]}
NetOf(script, request) == IF request = script.at THEN script.net ELSE PlainOk

\* iter_project_vulnerabilities run to its end: the records it yields, whether
\* a request failed, whether an exception left it
RECURSIVE RunLoop(_, _, _, _)
RunLoop(st, srv, script, anyFailed) ==
    IF st.pc # "loop"
    THEN [out |-> st.out, pc |-> st.pc, failed |-> anyFailed]
    ELSE LET res == _get_json(NetOf(script, st.page), ServerPage(srv, st.page))
         IN  RunLoop(LoopBody(st, res), srv, script, anyFailed \/ res.kind # "list")

IsSeverity(v, name) == lower(or_empty(dict_get(v, "severity", None))) = name
IsDetected(v) == lower(or_empty(dict_get(v, "state", None))) = "detected"

\* mutant: the state of the record not re-checked
open_counts_trusting_server(recs) ==
    [critical |-> Len(SelectSeq(recs, LAMBDA v : IsSeverity(v, "critical"))),
     high     |-> Len(SelectSeq(recs, LAMBDA v : IsSeverity(v, "high")))]

\* lines 176-185 over the records the generator yields
open_counts(recs) ==
    [critical |-> Len(SelectSeq(recs, LAMBDA v : IsSeverity(v, "critical") /\ IsDetected(v))),
     high     |-> Len(SelectSeq(recs, LAMBDA v :
                        ~(IsSeverity(v, "critical") /\ IsDetected(v))
                        /\ IsSeverity(v, "high") /\ IsDetected(v)))]

InWindow(v, cut) ==
    LET created == _parse_utc(get_created_at(v))
    IN  created.ok /\ created.t >= cut

\* mutant: the record on the cutoff left out
vulns_strictly_after(recs, cut) ==
    SelectSeq(recs, LAMBDA v :
        LET created == _parse_utc(get_created_at(v))
        IN  created.ok /\ created.t > cut)

\* lines 190-195 over the records the generator yields
vulns_since(recs, cut) == SelectSeq(recs, LAMBDA v : InWindow(v, cut))

\* lines 200-208
window_counts(recs) ==
    [critical |-> Len(SelectSeq(recs, LAMBDA v : IsSeverity(v, "critical"))),
     high     |-> Len(SelectSeq(recs, LAMBDA v :
                        ~IsSeverity(v, "critical") /\ IsSeverity(v, "high")))]

MaxRecs == 2    \* records a project has on the server
Scripts == [at : 1..(MaxRecs + 1), net : ScriptNets]

get_open_counts ==
    /\ ppc = "open"
    /\ \E script \in Scripts :
         LET run == RunLoop(Loop(1, <<>>, "loop"), srvPages, script, FALSE)
         IN  /\ produced' = run.out
             /\ failed' = (failed \/ run.failed)
             /\ IF run.pc = "raised"
                THEN ppc' = "raised" /\ counts' = counts
                ELSE ppc' = "done" /\ counts' = Append(counts, open_counts(run.out))
    /\ UNCHANGED <<clock, items, cutoff, now_read, pctVars, pageVars, mainVars>>

\* mutant: every window cut 30 days back
cutoff_always_30(now, days_back) == now - 30 * HoursPerDay

\* line 189
cutoff_of(now, days_back) == now - days_back * HoursPerDay

\* what the clock can advance by while one pass runs, in hours: nothing, 30
\* days, 30 days and an hour.  A pass lasts as long as the server makes it
\* last: a 429 is slept out for Retry-After seconds (line 91), and the clock
\* is the wall clock.
Elapsed == {0, 30 * HoursPerDay, 30 * HoursPerDay + 1}

get_window_counts(at, days_back, next) ==
    /\ ppc = at
    /\ \E script \in Scripts, dt \in Elapsed :
         LET cut == cutoff_of(clock, days_back)
             run == RunLoop(Loop(1, <<>>, "loop"), srvPages, script, FALSE)
             kept == vulns_since(run.out, cut)
         IN  /\ now_read' = Append(now_read, clock)
             /\ cutoff' = cut
             /\ produced' = run.out
             /\ failed' = (failed \/ run.failed)
             /\ clock' = clock + dt
             /\ IF run.pc = "raised"
                THEN ppc' = "raised" /\ items' = <<>> /\ counts' = counts
                ELSE /\ ppc' = next
                     /\ items' = kept
                     /\ counts' = Append(counts, window_counts(kept))
    /\ UNCHANGED <<pctVars, pageVars, mainVars>>

Window30 == get_window_counts("w30", 30, "w60")
Window60 == get_window_counts("w60", 60, "w90")
Window90 == get_window_counts("w90", 90, "done")

\* vulnerability records as the server holds them (state x severity)
OpenRecords ==
    {Vuln("critical", "detected", NoStamp("absent")),
     Vuln("Critical", "DETECTED", NoStamp("absent")),
     Vuln("critical", "resolved", NoStamp("absent")),
     Vuln("CRITICAL", None, NoStamp("absent")),
     Vuln("high", "Detected", NoStamp("absent")),
     Vuln("HIGH", "dismissed", NoStamp("absent")),
     Vuln("medium", "detected", NoStamp("absent")),
     Vuln(None, "detected", NoStamp("absent")),
     Vuln(Absent, Absent, NoStamp("absent"))}

\* vulnerability records as the server holds them (created_at x severity);
\* times are relative to the first clock reading
WindowRecords ==
    {Vuln("critical", "detected", Stamp("naive", -30 * HoursPerDay, 0)),
     Vuln("Critical", "resolved", Stamp("aware", -60 * HoursPerDay, 1)),
     Vuln("high", "detected", Stamp("aware", -90 * HoursPerDay - 1, -1)),
     Vuln("HIGH", "detected", NoStamp("garbage")),
     Vuln("critical", "detected", NoStamp("absent")),
     Vuln("medium", "detected", Stamp("naive", -10 * HoursPerDay, 0))}

\* a listing served one record a page
OnePerPage(recs) == [p \in 1..Len(recs) |-> <<recs[p]>>]

(***************************************************************************)
(* main                                                                    *)
(***************************************************************************)
NumGroups == 2      \* groups of scrum_ids the run goes through
MaxProjects == 2    \* projects a group has on the server

\* the keys of scrum_ids, in the order of the dict
scrum_names == <<"sme-mobile", "sme-online", "sme-finacle", "sme-report">>
scrum_ids == SubSeq(scrum_names, 1, NumGroups)

\* str(pid)
str(pid) == <<"1", "2", "3", "4", "5", "6", "7", "8", "9">>[pid]
\* the project objects of a group: some carry a name, some do not
Project(i) == [id |-> i, name |-> IF i % 2 = 1 THEN "Backend" ELSE None]
lower_name(x) == IF x = "Backend" THEN "backend" ELSE lower(x)

CountCols ==
    <<"Critical", "High", "30DaysCritical", "30DaysHigh",
      "60DaysCritical", "60DaysHigh", "90DaysCritical", "90DaysHigh">>
ColSet == {CountCols[i] : i \in DOMAIN CountCols}

\* lines 407-418
ProjectRow(scrum, pname, open, last30, last60, last90) ==
    ("ScrumName" :> lower(scrum)) @@ ("ProjectName" :> lower_name(pname))
    @@ ("Critical" :> open.critical) @@ ("High" :> open.high)
    @@ ("30DaysCritical" :> last30.critical) @@ ("30DaysHigh" :> last30.high)
    @@ ("60DaysCritical" :> last60.critical) @@ ("60DaysHigh" :> last60.high)
    @@ ("90DaysCritical" :> last90.critical) @@ ("90DaysHigh" :> last90.high)

\* mutant: the last row left out of the total
RECURSIVE _sum_without_last(_, _)
_sum_without_last(rows, col) ==
    IF Len(rows) <= 1 THEN 0
    ELSE rows[1][col] + _sum_without_last(Tail(rows), col)

\* lines 435-436: the total of a column of the group's table
RECURSIVE _sum(_, _)
_sum(rows, col) ==
    IF rows = <<>> THEN 0
    ELSE rows[1][col] + _sum(Tail(rows), col)

\* lines 438-448
SummaryRow(scrum, rows) ==
    ("ScrumName" :> lower(scrum)) @@ [c \in ColSet |-> _sum(rows, c)]

Sheet(name, rows) == [name |-> name, rows |-> rows]
\* sheet_name[:31]; every key of scrum_ids is shorter
safe_sheet_name(name) == name

PctHeaders ==
    <<"30Day Critical % change", "30Day High % change",
      "60Day Critical % change", "60Day High % change",
      "90Day Critical % change", "90Day High % change">>

\* mutant: the critical columns compared with the current high count
pct_row_high_baseline(r) ==
    ("ScrumName" :> r["ScrumName"])
    @@ ("30Day Critical % change" :>
          _compute_pct_change_against_current(r["30DaysCritical"], r["High"]))
    @@ ("30Day High % change" :>
          _compute_pct_change_against_current(r["30DaysHigh"], r["High"]))
    @@ ("60Day Critical % change" :>
          _compute_pct_change_against_current(r["60DaysCritical"], r["High"]))
    @@ ("60Day High % change" :>
          _compute_pct_change_against_current(r["60DaysHigh"], r["High"]))
    @@ ("90Day Critical % change" :>
          _compute_pct_change_against_current(r["90DaysCritical"], r["High"]))
    @@ ("90Day High % change" :>
          _compute_pct_change_against_current(r["90DaysHigh"], r["High"]))

\* lines 298-318: one entry of pct_rows
pct_row(r) ==
    ("ScrumName" :> r["ScrumName"])
    @@ ("30Day Critical % change" :>
          _compute_pct_change_against_current(r["30DaysCritical"], r["Critical"]))
    @@ ("30Day High % change" :>
          _compute_pct_change_against_current(r["30DaysHigh"], r["High"]))
    @@ ("60Day Critical % change" :>
          _compute_pct_change_against_current(r["60DaysCritical"], r["Critical"]))
    @@ ("60Day High % change" :>
          _compute_pct_change_against_current(r["60DaysHigh"], r["High"]))
    @@ ("90Day Critical % change" :>
          _compute_pct_change_against_current(r["90DaysCritical"], r["Critical"]))
    @@ ("90Day High % change" :>
          _compute_pct_change_against_current(r["90DaysHigh"], r["High"]))

\* the two kinds of cell value of the percent block
Dash == [kind |-> "dash", num |-> 0, den |-> 1]
\* lines 364-370
cell_value(val) == IF val.kind = None THEN Dash ELSE Float(val.num, val.den)

\* lines 353-370: the data rows of the block, name first, then six cells
pct_cells(rows) ==
    [i \in DOMAIN rows |->
        [name |-> rows[i]["ScrumName"],
         values |-> [j \in DOMAIN PctHeaders |-> cell_value(rows[i][PctHeaders[j]])]]]

\* add_percentage_change_table: pct_rows, then the cells written
add_percentage_change_table(summary) ==
    LET rows == [i \in DOMAIN summary |-> pct_row(summary[i])]
    IN  [pct_rows |-> rows, cells |-> pct_cells(rows)]

IndexOf(ws, name) == CHOOSE i \in DOMAIN ws : ws[i].name = name
Without(ws, i) == SubSeq(ws, 1, i - 1) \o SubSeq(ws, i + 1, Len(ws))

\* mutant: Summary changes places with the first sheet
move_sheet_swap(ws, sheet_name) ==
    LET idx == IndexOf(ws, sheet_name)
    IN  [i \in DOMAIN ws |-> IF i = 1 THEN ws[idx] ELSE IF i = idx THEN ws[1] ELSE ws[i]]

\* lines 264-270: the sheet is taken out and put back at position 0
move_sheet_first(ws, sheet_name) ==
    LET idx == IndexOf(ws, sheet_name)
    IN  <<ws[idx]>> \o Without(ws, idx)

\* the vulnerabilities a project of the run can have on the server
MainRecords ==
    {Vuln("critical", "detected", Stamp("naive", -45 * HoursPerDay, 0)),
     Vuln("High", "resolved", Stamp("aware", -10 * HoursPerDay, 1))}
MainListings == {<<>>} \cup {<<<<v>>>> : v \in MainRecords}
\* the network while one listing is read: no fault, a request that fails, a
\* request that raises
MainScripts == {[at |-> 1, net |-> n] : n \in ScriptNets}

\* lines 381-385: the sample fetch; whatever it does is discarded
Sample ==
    /\ mpc = "start"
    /\ \E script \in MainScripts, vs \in MainListings :
         LET run == RunLoop(Loop(1, <<>>, "loop"), vs, script, FALSE)
         IN  run.pc \in {"done", "raised"}
    /\ mpc' = "group"
    /\ UNCHANGED <<gi, projects, pidx, data_rows, summary_rows, sheets, pct_rows, cells,
                   pctVars, pageVars, projVars>>

\* lines 390-394: the next group; its projects are listed
StartGroup ==
    /\ mpc = "group"
    /\ gi < Len(scrum_ids)
    /\ gi' = gi + 1
    /\ data_rows' = <<>>
    /\ pidx' = 0
    /\ \E n \in 0..MaxProjects, script \in MainScripts :
         LET listing == [i \in 1..n |-> <<Project(i)>>]
             run == RunLoop(Loop(1, <<>>, "loop"), listing, script, FALSE)
         IN  IF run.pc = "raised"
             THEN mpc' = "aborted" /\ projects' = <<>>
             ELSE mpc' = "project" /\ projects' = run.out
    /\ UNCHANGED <<summary_rows, sheets, pct_rows, cells, pctVars, pageVars, projVars>>

\* lines 395-418: one project of the group
ProcessProject ==
    /\ mpc = "project"
    /\ pidx < Len(projects)
    /\ pidx' = pidx + 1
    /\ \E vs \in MainListings, script \in MainScripts :
         LET proj == projects[pidx + 1]
             pname == IF or_empty(proj.name) = "" THEN str(proj.id) ELSE proj.name
             \* the four passes meet the same network and the same clock
             open == RunLoop(Loop(1, <<>>, "loop"), vs, script, FALSE)
             win == RunLoop(Loop(1, <<>>, "loop"), vs, script, FALSE)
             last(days) == window_counts(vulns_since(win.out, cutoff_of(clock, days)))
         IN  IF open.pc = "raised" \/ win.pc = "raised"
             THEN mpc' = "aborted" /\ data_rows' = data_rows
             ELSE /\ mpc' = "project"
                  /\ data_rows' = Append(data_rows,
                        ProjectRow(scrum_ids[gi], pname, open_counts(open.out),
                                   last(30), last(60), last(90)))
    /\ UNCHANGED <<gi, projects, summary_rows, sheets, pct_rows, cells,
                   pctVars, pageVars, projVars>>

\* lines 420-448: the group's sheet is written, its totals are kept
FinishGroup ==
    /\ mpc = "project"
    /\ pidx = Len(projects)
    /\ sheets' = Append(sheets, Sheet(safe_sheet_name(lower(scrum_ids[gi])), data_rows))
    /\ summary_rows' = Append(summary_rows, SummaryRow(scrum_ids[gi], data_rows))
    /\ mpc' = IF gi = Len(scrum_ids) THEN "summary" ELSE "group"
    /\ UNCHANGED <<gi, projects, pidx, data_rows, pct_rows, cells,
                   pctVars, pageVars, projVars>>

\* lines 450-459: the Summary sheet is written and the file closed
WriteSummary ==
    /\ mpc = "summary"
    /\ sheets' = Append(sheets, Sheet("Summary", summary_rows))
    /\ mpc' = "post"
    /\ UNCHANGED <<gi, projects, pidx, data_rows, summary_rows, pct_rows, cells,
                   pctVars, pageVars, projVars>>

\* lines 461-479: the percent block, the styling, Summary moved, the file saved
PostProcess ==
    /\ mpc = "post"
    /\ LET block == add_percentage_change_table(summary_rows)
       IN  pct_rows' = block.pct_rows /\ cells' = block.cells
    /\ sheets' = move_sheet_first(sheets, "Summary")
    /\ mpc' = "saved"
    /\ UNCHANGED <<gi, projects, pidx, data_rows, summary_rows,
                   pctVars, pageVars, projVars>>

\* the server's listings: page p holds records <<p, 1>>, <<p, 2>>, ...
PageOfSize(p, n) == [i \in 1..n |-> <<p, i>>]
Listings ==
    {[p \in 1..Len(sizes) |-> PageOfSize(p, sizes[p])] : sizes \in SeqsUpTo(0..MaxPageLen, MaxPages)}

InitPct ==
    /\ window_count \in 0..MaxCount
    /\ current_count \in 0..MaxCount
    /\ pct_result = Unset
    /\ IdlePage /\ IdleProj /\ IdleMain

NextPct == ComputePct
SpecPct == InitPct /\ [][NextPct]_vars

InitPage ==
    /\ accessor \in {"get_projects_in_group", "iter_project_vulnerabilities"}
    /\ srvPages \in Listings
    /\ page = 1 /\ out = <<>> /\ data = NoData /\ requested = <<>> /\ pc = "loop"
    /\ IdlePct /\ IdleProj /\ IdleMain

InitOpen ==
    /\ srvPages \in {OnePerPage(recs) : recs \in SeqsUpTo(OpenRecords, MaxRecs)}
    /\ ppc = "open"
    /\ clock = 0 /\ produced = <<>> /\ items = <<>> /\ cutoff = 0
    /\ now_read = <<>> /\ counts = <<>> /\ failed = FALSE
    /\ accessor = "iter_project_vulnerabilities" /\ page = 1 /\ out = <<>>
    /\ data = NoData /\ requested = <<>> /\ pc = "idle"
    /\ IdlePct /\ IdleMain

NextOpen == get_open_counts
SpecOpen == InitOpen /\ [][NextOpen]_vars

InitWindow ==
    /\ srvPages \in {OnePerPage(recs) : recs \in SeqsUpTo(WindowRecords, MaxRecs)}
    /\ ppc = "w30"
    /\ clock = 0 /\ produced = <<>> /\ items = <<>> /\ cutoff = 0
    /\ now_read = <<>> /\ counts = <<>> /\ failed = FALSE
    /\ accessor = "iter_project_vulnerabilities" /\ page = 1 /\ out = <<>>
    /\ data = NoData /\ requested = <<>> /\ pc = "idle"
    /\ IdlePct /\ IdleMain

NextWindow == Window30 \/ Window60 \/ Window90
SpecWindow == InitWindow /\ [][NextWindow]_vars

Init ==
    /\ mpc = "start" /\ gi = 0 /\ projects = <<>> /\ pidx = 0 /\ data_rows = <<>>
    /\ summary_rows = <<>> /\ sheets = <<>> /\ pct_rows = <<>> /\ cells = <<>>
    /\ IdlePct /\ IdlePage /\ IdleProj

Next ==
    \/ Sample \/ StartGroup \/ ProcessProject \/ FinishGroup
    \/ WriteSummary \/ PostProcess
Spec == Init /\ [][Next]_vars

NextPage == get_projects_in_group \/ iter_project_vulnerabilities
SpecPage == InitPage /\ [][NextPage]_vars
\* the loop is plain sequential code: an iteration that can run does run
FairSpecPage == SpecPage /\ WF_vars(NextPage)

(***************************************************************************)
(* Properties                                                              *)
(***************************************************************************)

\* C1: for non-negative counts the percent change is 0.0 when both counts are
\* 0, undefined (None) exactly when the current count is 0 and the window
\* count is positive, and otherwise the fraction (window - current) / current,
\* whose sign is that of window - current.
C1_PercentChange ==
    pct_result # Unset =>
        LET wc == window_count
            cc == current_count
            r  == pct_result
        IN  /\ (r.kind = None) <=> (cc = 0 /\ wc > 0)
            /\ (cc = 0 /\ wc = 0) => (r.kind = "float" /\ r.num = 0 /\ r.den > 0)
            /\ cc > 0 =>
                 /\ r.kind = "float" /\ r.den > 0
                 /\ r.num * cc = (wc - cc) * r.den
                 /\ (r.num = 0) <=> (wc = cc)
                 /\ (r.num > 0) <=> (wc > cc)
                 /\ (r.num < 0) <=> (wc < cc)
C1_Witness ==
    /\ pct_result = Undefined /\ current_count = 0 /\ window_count > 0

\* C2: a paging loop ends with the request that returns no records or fails,
\* and every run of a paging loop ends.
C2_PagingTerminates ==
    /\ [][(data'.kind # "list" \/ data'.recs = <<>>) => pc' # "loop"]_vars
    /\ <>(pc # "loop")
C2_Witness ==
    /\ pc = "done" /\ requested = <<1>> /\ data.kind = None /\ srvPages # <<>>

\* C3: a call of _get_json ends by returning a list or None, never by an
\* exception that reaches the caller.
C3_NeverPropagates == data.kind \in {"unset", "list", None}

\* the records of pages 1..n of a listing, in order
RECURSIVE FlatPrefix(_, _)
FlatPrefix(srv, n) == IF n = 0 THEN <<>> ELSE FlatPrefix(srv, n - 1) \o ServerPage(srv, n)

\* C9: pages are requested in the order 1, 2, 3, ...; the accessor stops at
\* the first page k that is empty or whose request fails, and then returns
\* the records of pages 1..k-1 in order.
C9_PagesInOrder ==
    /\ requested = [i \in 1..Len(requested) |-> i]
    /\ pc # "loop" =>
         LET k == Len(requested)
         IN  /\ pc = "done"
             /\ data.kind # "list" \/ data.recs = <<>>
             /\ \A i \in 1..(k - 1) : ServerPage(srvPages, i) # <<>>
             /\ out = FlatPrefix(srvPages, k - 1)

\* the spellings of a word that differ only in case
AnyCase(word) ==
    CASE word = "critical" -> {"critical", "Critical", "CRITICAL"}
      [] word = "high" -> {"high", "High", "HIGH"}
      [] word = "detected" -> {"detected", "Detected", "DETECTED"}

\* C7: get_open_counts returns the number of yielded records that are
\* detected and critical, and the number that are detected and high, both
\* compared without regard to case; no record is counted twice.
C7_OpenCounts ==
    (ppc = "done" /\ Len(counts) = 1) =>
        LET Open(v, sev) == v.severity \in AnyCase(sev) /\ v.state \in AnyCase("detected")
        IN  /\ counts[1].critical =
                 Cardinality({i \in DOMAIN produced : Open(produced[i], "critical")})
            /\ counts[1].high =
                 Cardinality({i \in DOMAIN produced : Open(produced[i], "high")})
            /\ counts[1].critical + counts[1].high <= Len(produced)
C7_Witness ==
    /\ ppc = "done" /\ Len(counts) = 1 /\ Len(produced) = 2
    /\ counts[1].critical = 1
    /\ \E i \in DOMAIN produced :
         produced[i].severity \in AnyCase("critical") /\ produced[i].state = "resolved"
    /\ \E i \in DOMAIN produced :
         produced[i].severity = "Critical" /\ produced[i].state = "DETECTED"

\* the UTC instant a created_at value denotes, if it denotes one
Denotes(stamp) == stamp.form \in {"naive", "aware"}
Instant(stamp) == IF stamp.form = "aware" THEN stamp.local - stamp.offset ELSE stamp.local
WindowPassReturned == ppc \in {"w60", "w90", "done"} /\ counts # <<>>

\* C4: a window pass retains a yielded record if and only if its creation
\* time parses and is at or after now - daysBack; a retained record counts as
\* critical or as high by its severity, and otherwise in neither bucket.
C4_WindowFilter ==
    WindowPassReturned =>
        LET n == Len(counts)
            days == 30 * n
            cut == now_read[n] - days * HoursPerDay
            Keep(v) == Denotes(v.created_at) /\ Instant(v.created_at) >= cut
        IN  /\ items = SelectSeq(produced, Keep)
            /\ counts[n].critical =
                 Cardinality({i \in DOMAIN produced :
                     Keep(produced[i]) /\ produced[i].severity \in AnyCase("critical")})
            /\ counts[n].high =
                 Cardinality({i \in DOMAIN produced :
                     Keep(produced[i]) /\ produced[i].severity \in AnyCase("high")})
C4_Witness ==
    /\ ppc = "w60" /\ Len(produced) = 2 /\ Len(items) = 1
    /\ Denotes(items[1].created_at) /\ Instant(items[1].created_at) = cutoff
    /\ \E i \in DOMAIN produced : produced[i].created_at.form = "garbage"

Monotone ==
    /\ counts[1].critical <= counts[2].critical /\ counts[2].critical <= counts[3].critical
    /\ counts[1].high <= counts[2].high /\ counts[2].high <= counts[3].high

\* C10 as stated: when no page request failed while the project was read,
\* the 30-, 60- and 90-day counts of each severity do not decrease.
C10_MonotoneAsStated ==
    (ppc = "done" /\ Len(counts) = 3 /\ ~failed) => Monotone

\* C10, amended: when no page request failed and each window pass read the
\* clock at most 30 days after the pass before it, the 30-, 60- and 90-day
\* counts of each severity do not decrease.
C10_MonotoneWithinThirtyDays ==
    (/\ ppc = "done" /\ Len(counts) = 3 /\ ~failed
     /\ now_read[2] - now_read[1] <= 30 * HoursPerDay
     /\ now_read[3] - now_read[2] <= 30 * HoursPerDay) => Monotone
C10_Witness ==
    /\ ppc = "done" /\ Len(counts) = 3 /\ ~failed
    /\ now_read[2] - now_read[1] = 30 * HoursPerDay
    /\ now_read[3] - now_read[2] = 0
    /\ counts[1].critical = 1 /\ counts[2].critical = 1 /\ counts[3].critical = 1

\* the rows of the sheet written for a group
RowsOfGroup(name) == sheets[IndexOf(sheets, name)].rows
RECURSIVE Total(_, _, _)
Total(rows, col, n) == IF n = 0 THEN 0 ELSE Total(rows, col, n - 1) + rows[n][col]

\* C5: once a group is processed, each of the 8 count fields of its
\* SummaryRow is the sum of that field over the ProjectRows of that group,
\* which are rows of that group only; for a group without projects it is 0.
C5_SummaryIsSum ==
    \A g \in DOMAIN summary_rows :
        LET name == scrum_ids[g]
            rows == RowsOfGroup(name)
        IN  /\ summary_rows[g]["ScrumName"] = name
            /\ \A i \in DOMAIN rows : rows[i]["ScrumName"] = name
            /\ \A c \in ColSet : summary_rows[g][c] = Total(rows, c, Len(rows))
            /\ rows = <<>> => \A c \in ColSet : summary_rows[g][c] = 0
C5_Witness ==
    /\ Len(summary_rows) = 2
    /\ Len(RowsOfGroup(scrum_ids[1])) = 2 /\ summary_rows[1]["Critical"] = 2
    /\ summary_rows[1]["60DaysCritical"] = 2 /\ summary_rows[1]["30DaysCritical"] = 0
    /\ RowsOfGroup(scrum_ids[2]) = <<>>

\* the count column of a window and a severity, and of the current counts
WindowCol(w, sev) == CountCols[2 * w + sev]
CurrentCol(sev) == CountCols[sev]

\* C6: the percent block has one row per row of the summary table, in the
\* same order; its cell for a window and a severity is a dash exactly when
\* the group's current count is 0 and its window count is positive, and
\* otherwise the number (window - current) / current, or 0 when both are 0.
C6_PercentBlock ==
    mpc = "saved" =>
        LET summary == sheets[IndexOf(sheets, "Summary")].rows
        IN  /\ Len(cells) = Len(summary)
            /\ \A g \in DOMAIN summary :
                 /\ cells[g].name = summary[g]["ScrumName"]
                 /\ Len(cells[g].values) = 6
                 /\ \A w \in 1..3, sev \in 1..2 :
                      LET cell == cells[g].values[2 * (w - 1) + sev]
                          win == summary[g][WindowCol(w, sev)]
                          cur == summary[g][CurrentCol(sev)]
                      IN  /\ (cell = Dash) <=> (cur = 0 /\ win > 0)
                          /\ cell # Dash =>
                               /\ cell.kind = "float" /\ cell.den > 0
                               /\ IF cur = 0 THEN cell.num = 0
                                  ELSE cell.num * cur = (win - cur) * cell.den
C6_Witness ==
    /\ mpc = "saved" /\ Len(cells) = 2
    /\ cells[1].values[1] = Float(-1, 1)
    /\ cells[1].values[2] = Dash
    /\ \A j \in 1..6 : cells[2].values[j] = Float(0, 1)

SheetNames(ws) == [i \in DOMAIN ws |-> ws[i].name]

\* C8: the saved workbook has the Summary sheet first and then one sheet per
\* group in the order the groups were processed; moving Summary to the front
\* leaves the other sheets as they were, in their order.
C8_SheetOrder ==
    /\ [](mpc = "saved" =>
            SheetNames(sheets) = <<"Summary">> \o [g \in DOMAIN scrum_ids |-> lower(scrum_ids[g])])
    /\ [][(mpc = "post" /\ mpc' = "saved") =>
            /\ Len(sheets') = Len(sheets)
            /\ Without(sheets', IndexOf(sheets', "Summary"))
                 = Without(sheets, IndexOf(sheets, "Summary"))]_vars
C8_Witness ==
    /\ mpc = "saved" /\ Len(sheets) = 3
    /\ sheets[2].rows # <<>> /\ sheets[3].rows # <<>>

====
